---- MODULE Spec2Model ----
(***************************************************************************)
(* Xendit hosted-checkout gateway of the payments app:                     *)
(*   payments/payment_gateways/doctype/xendit_settings/xendit_settings.py  *)
(*                                                                         *)
(* The model covers the three entry points of the controller               *)
(*   XenditSettings.validate_transaction_currency                          *)
(*   XenditSettings.get_payment_url   (RequestCheckout of the spec)        *)
(*   confirm_payment                  (Confirm of the spec)                *)
(* together with the Integration Request table (the checkout token store), *)
(* the provider's invoices and the reference documents' notification       *)
(* hook on_payment_authorized.                                             *)
(*                                                                         *)
(* Every request is one "call".  confirm_payment and get_payment_url are   *)
(* split at the points where they talk to the database or to the provider, *)
(* so that requests served by different workers interleave there.          *)
(***************************************************************************)
EXTENDS Integers, Sequences, FiniteSets, TLC

\* ------------------------------------------------------------------ bounds

\* Number of requests (calls) served in one behaviour.
NumCalls == 3

Calls == 1..NumCalls

\* Names of the Payment Request documents that exist.
PaymentRequests == {"PR-1", "PR-2"}

\* Names a caller may pass as reference_docname / token.  "SO-9" is a
\* document name that is not a Payment Request, hence never a token.
Names == PaymentRequests \cup {"SO-9"}

\* Currencies a caller may pass.
Currencies == {"IDR", "USD"}

\* Invoice statuses the provider reports.
InvoiceStatuses == {"PENDING", "PAID", "EXPIRED"}

\* Values on_payment_authorized may return.
None == "None"
CustomRedirects == {None, "thanks?id=7"}

\* What running the hook of the reference document can do: the document
\* cannot be loaded, the hook raises, or it returns a value.
HookOutcomes == {"DoesNotExist", "Raises"} \cup CustomRedirects

\* ------------------------------------------------------- program constants

\* class attribute XenditSettings.supported_currencies
supported_currencies == {"IDR"}

\* Status of a freshly inserted Integration Request.  create_request_log is
\* given no status, so the document keeps the initial status of the
\* Integration Request doctype, "Queued": the Pending of the specification.
Queued == "Queued"
Completed == "Completed"

NoDoc == [status |-> "NoDoc"]

VARIABLES
    integration_requests,  \* the Integration Request table: name -> document
    invoices,              \* the provider's invoices, invoice id = index
    notifications,         \* on_payment_authorized runs, per reference document
    call,                  \* per call: position and local variables
    payment_requests       \* the Payment Request documents: name -> document

vars == <<integration_requests, invoices, notifications, call, payment_requests>>

\* ----------------------------------------------------------- call records

NoUrl == <<>>

NoInvoice == [id |-> 0, external_id |-> None, status |-> None, invoice_url |-> NoUrl]

NoResponse == <<>>

IdleCall ==
    [ pc |-> "idle",
      op |-> None,
      token |-> None,                \* token (confirm) or reference_docname
      currency |-> None,             \* kwargs["currency"] / currency argument
      integration_request |-> NoDoc, \* the document read at line 183
      invoice |-> NoInvoice,         \* provider response held by the call
      custom_redirect_to |-> None,
      api |-> {},                    \* provider operations the call invoked
      notified |-> FALSE,            \* the call ran on_payment_authorized
      raised |-> None,               \* exception that reached the caller
      logged |-> FALSE,              \* frappe.log_error was called
      returned |-> NoUrl,            \* return value of get_payment_url
      response |-> NoResponse ]      \* frappe.local.response location

Finished(c) == call[c].pc = "done"
Running(c) == call[c].pc \notin {"idle", "done"}

\* Calls are numbered in the order in which they arrive.
CanStart(c) ==
    /\ call[c].pc = "idle"
    /\ IF c = 1 THEN TRUE ELSE call[c - 1].pc # "idle"

\* Nothing is stored and nothing has been requested.
NothingRequested ==
    /\ integration_requests = [n \in Names |-> NoDoc]
    /\ invoices = <<>>
    /\ notifications = [n \in Names |-> 0]
    /\ call = [c \in Calls |-> IdleCall]

Init ==
    /\ NothingRequested
    /\ payment_requests = [n \in PaymentRequests |->
                              [grand_total |-> IF n = "PR-1" THEN 100000 ELSE 250000]]

\* ------------------------------------------------------- float arithmetic

\* Python floats are IEEE-754 binary64.  A float is kept here as its 53
\* significant binary digits m (most significant first) and an exponent e:
\* its value is m * 2^e.  Every operation below computes the exact result
\* and rounds it to 53 digits, to nearest, ties to even, as the hardware
\* does.  The operands of the fee computation are exact integers below
\* 2^23, so multiplication and division by such an integer are all that is
\* needed.  Long numbers are multiplied and divided in base 256.

Zeros(k) == [i \in 1..k |-> 0]

FloatZero == [m |-> Zeros(53), e |-> 0]

\* The base-256 digits of a binary digit sequence (most significant first).
LimbsOfBits(bits) ==
    LET p == Zeros((8 - (Len(bits) % 8)) % 8) \o bits
    IN [j \in 1..(Len(p) \div 8) |->
           LET o == 8 * (j - 1)
           IN 128 * p[o + 1] + 64 * p[o + 2] + 32 * p[o + 3] + 16 * p[o + 4]
                + 8 * p[o + 5] + 4 * p[o + 6] + 2 * p[o + 7] + p[o + 8]]

\* The binary digits of a base-256 digit sequence.
BitsOfLimbs(limbs) ==
    [i \in 1..(8 * Len(limbs)) |->
        (limbs[((i - 1) \div 8) + 1] \div (2 ^ (7 - ((i - 1) % 8)))) % 2]

\* The base-256 digits of a natural number, most significant first.
RECURSIVE LimbsOfNat(_)
LimbsOfNat(n) ==
    IF n = 0 THEN <<>> ELSE Append(LimbsOfNat(n \div 256), n % 256)

\* The natural number a base-256 digit sequence denotes.
RECURSIVE NatOfLimbs(_)
NatOfLimbs(limbs) ==
    IF limbs = <<>> THEN 0
    ELSE 256 * NatOfLimbs(SubSeq(limbs, 1, Len(limbs) - 1)) + limbs[Len(limbs)]

\* A binary digit sequence without its leading zeros.
Strip(bits) ==
    IF \A i \in 1..Len(bits) : bits[i] = 0 THEN <<>>
    ELSE LET f == CHOOSE i \in 1..Len(bits) :
                     bits[i] = 1 /\ \A j \in 1..(i - 1) : bits[j] = 0
         IN SubSeq(bits, f, Len(bits))

\* The binary digit sequence plus one.
Increment(bits) ==
    IF \A i \in 1..Len(bits) : bits[i] = 1 THEN <<1>> \o Zeros(Len(bits))
    ELSE LET z == CHOOSE i \in 1..Len(bits) :
                     bits[i] = 0 /\ \A j \in (i + 1)..Len(bits) : bits[j] = 1
         IN [i \in 1..Len(bits) |->
                IF i < z THEN bits[i] ELSE IF i = z THEN 1 ELSE 0]

\* The base-256 digits of limbs[1..i] * n + carry.
RECURSIVE TimesFrom(_, _, _, _)
TimesFrom(limbs, i, n, carry) ==
    IF i = 0 THEN LimbsOfNat(carry)
    ELSE LET t == limbs[i] * n + carry
         IN Append(TimesFrom(limbs, i - 1, n, t \div 256), t % 256)

\* Long division of a base-256 digit sequence by n: quotient digits and
\* remainder.
RECURSIVE DivFrom(_, _, _, _, _)
DivFrom(limbs, i, n, rem, q) ==
    IF i > Len(limbs) THEN [q |-> q, r |-> rem]
    ELSE LET t == 256 * rem + limbs[i]
         IN DivFrom(limbs, i + 1, n, t % n, Append(q, t \div n))

\* The float nearest to bits * 2^e (+ something below the last digit when
\* sticky): round to nearest, ties to even.
Round(bits, e, sticky) ==
    LET b == Strip(bits)
        n == Len(b)
    IN IF n = 0 THEN FloatZero
       ELSE IF n <= 53 THEN [m |-> b \o Zeros(53 - n), e |-> e - (53 - n)]
       ELSE LET head == SubSeq(b, 1, 53)
                rest == sticky \/ \E i \in 55..n : b[i] = 1
                up == b[54] = 1 /\ (rest \/ head[53] = 1)
                inc == IF up THEN Increment(head) ELSE head
            IN IF Len(inc) = 54
               THEN [m |-> SubSeq(inc, 1, 53), e |-> e + (n - 53) + 1]
               ELSE [m |-> inc, e |-> e + (n - 53)]

\* float(n) for a natural number n.
FloatOfInt(n) == Round(BitsOfLimbs(LimbsOfNat(n)), 0, FALSE)

\* x * n for a float x and an integer-valued float n, 0 <= n < 2^23.
FloatTimesInt(x, n) ==
    LET limbs == LimbsOfBits(x.m)
    IN Round(BitsOfLimbs(TimesFrom(limbs, Len(limbs), n, 0)), x.e, FALSE)

\* x / n for a float x and an integer-valued float n, 0 < n < 2^23: the
\* quotient is carried 40 digits further than x, which leaves more than 53
\* significant digits, and the remainder tells whether it is exact.
FloatDivInt(x, n) ==
    LET d == DivFrom(LimbsOfBits(x.m \o Zeros(40)), 1, n, 0, <<>>)
    IN Round(BitsOfLimbs(d.q), x.e - 40, d.r # 0)

\* int(x) for a float 0 <= x < 2^31: the digits left of the binary point.
IntOfFloat(x) ==
    IF x.e >= 0 THEN NatOfLimbs(LimbsOfBits(x.m \o Zeros(x.e)))
    ELSE IF -x.e >= 53 THEN 0
    ELSE NatOfLimbs(LimbsOfBits(SubSeq(x.m, 1, 53 + x.e)))

\* The literal 2.9: the float nearest to 29/10.
Float_2_9 == FloatDivInt(FloatOfInt(29), 10)

\* 2.9 / 100.
Float_2_9_percent == FloatDivInt(Float_2_9, 100)

\* ------------------------------------------------------------ the provider

\* The hosted checkout page of invoice id.
InvoiceUrl(id) == <<"https://checkout.xendit.co/web/", id>>

\* What Invoice.get / Invoice.create hand back for invoice id.
InvoiceOf(id) ==
    [ id |-> id,
      external_id |-> invoices[id].external_id,
      status |-> invoices[id].status,
      invoice_url |-> InvoiceUrl(id) ]

\* The invoice ids the Integration Requests hold.
StoredInvoiceIds ==
    {integration_requests[n].output.id :
        n \in {m \in Names : integration_requests[m] # NoDoc}}

\* The payer pays, the invoice expires, ...: the provider changes the status
\* of an invoice on its own, at any time.  Only the invoices some
\* Integration Request points to are ever read again, so only their status
\* is followed.
ProviderSetsStatus(i, s) ==
    /\ i \in StoredInvoiceIds
    /\ invoices[i].status # s
    /\ invoices' = [invoices EXCEPT ![i].status = s]
    /\ UNCHANGED <<payment_requests, integration_requests, notifications, call>>

\* ------------------------------------------- validate_transaction_currency

\* Lines 31-37: frappe.throw unless the currency is supported.
validate_transaction_currency(c, currency) ==
    /\ CanStart(c)
    /\ call' = [call EXCEPT ![c] =
                  [@ EXCEPT !.pc = "done",
                            !.op = "validate_transaction_currency",
                            !.currency = currency,
                            !.raised = IF currency \notin supported_currencies
                                       THEN "UnsupportedCurrency" ELSE None]]
    /\ UNCHANGED <<payment_requests, integration_requests, invoices, notifications>>

\* ---------------------------------------------------------- get_payment_url

\* frappe.utils.get_url: the absolute URL of a path of the site.
get_url(path) == <<"https://site/">> \o path

\* Lines 20-22.
api_path == "/api/method/payments.payment_gateways.doctype.xendit_settings.xendit_settings"

\* payment_confirmation_url without the token parameter.
payment_confirmation_url_without_token(name) ==
    get_url(<<api_path, ".confirm_payment">>)

\* Lines 110-112: the URL the provider sends the payer back to, for success
\* and for failure alike.
payment_confirmation_url(name) ==
    get_url(<<api_path, ".confirm_payment?token=", name>>)

\* Lines 100-107: the fee charged to the payer, a list of one fee.
fees(grand_total) ==
    <<[ type |-> "GATEWAY",
        value |-> 2000
                  + IntOfFloat(
                        FloatDivInt(
                            FloatTimesInt(Float_2_9_percent, grand_total),
                            1000)) * 1000 ]>>

\* execute_set_express_checkout that swallows the failure of Invoice.create
\* and goes on to log the request.
execute_set_express_checkout_swallows(c, kwargs, ascii, site, provider_ok) ==
    /\ CanStart(c)
    /\ ascii /\ kwargs.reference_docname \in PaymentRequests
    /\ UNCHANGED <<payment_requests, notifications, invoices>>
    /\ integration_requests' =
          [integration_requests EXCEPT ![kwargs.reference_docname] =
              [ status |-> Queued,
                output |-> NoInvoice,
                reference_doctype |-> "Payment Request",
                reference_docname |-> kwargs.reference_docname ]]
    /\ call' = [call EXCEPT ![c] =
                  [@ EXCEPT !.pc = "done",
                            !.op = "get_payment_url",
                            !.api = {"Invoice.create"},
                            !.raised = "Failed to create Xendit Invoice"]]

\* Lines 42-48 and 61-134.  kwargs carries reference_docname and currency,
\* and payer_email and amount unless the caller left them out; ascii says
\* whether title, description and payer_name decode (lines 44-46); site
\* which of the documents behind the Payment Request can be loaded;
\* provider_ok whether Invoice.create answers.  The failures come in the
\* order of the code: the Sales Order (75-78), an Item (85),
\* kwargs["payer_email"] (94), the Customer (96), and kwargs["amount"],
\* whose KeyError is raised inside the try of line 114 before the provider
\* is called and becomes the error of line 130.  The invoice is created
\* with external_id = payment_request.name and currency "IDR" whatever
\* kwargs["currency"] is (line 125).  A call that failed keeps only what
\* it raised and whether the provider was called.
execute_set_express_checkout(c, kwargs, ascii, site, provider_ok) ==
    /\ CanStart(c)
    /\ UNCHANGED <<payment_requests, integration_requests, notifications>>
    /\ LET failed(error) == [call EXCEPT ![c] =
                               [@ EXCEPT !.pc = "done",
                                         !.op = "get_payment_url",
                                         !.raised = error]]
       IN
       IF ~ascii
       THEN call' = failed("UnicodeDecodeError") /\ UNCHANGED invoices
       ELSE IF kwargs.reference_docname \notin PaymentRequests
       THEN call' = failed("InvalidReference") /\ UNCHANGED invoices
       ELSE IF ~site.sales_order
       THEN call' = failed("NotASalesOrder") /\ UNCHANGED invoices
       ELSE IF ~site.item
       THEN call' = failed("DoesNotExistError: Item") /\ UNCHANGED invoices
       ELSE IF "payer_email" \notin DOMAIN kwargs
       THEN call' = failed("KeyError: payer_email") /\ UNCHANGED invoices
       ELSE IF ~site.customer
       THEN call' = failed("DoesNotExistError: Customer") /\ UNCHANGED invoices
       ELSE IF "amount" \notin DOMAIN kwargs
       THEN call' = failed("Failed to create Xendit Invoice") /\ UNCHANGED invoices
       ELSE IF ~provider_ok
       THEN /\ call' = [failed("Failed to create Xendit Invoice")
                           EXCEPT ![c].api = {"Invoice.create"}]
            /\ UNCHANGED invoices
       ELSE /\ invoices' = Append(invoices,
                              [external_id |-> kwargs.reference_docname,
                               status |-> "PENDING",
                               amount |-> kwargs.amount,
                               currency |-> "IDR",
                               success_redirect_url |->
                                   payment_confirmation_url(kwargs.reference_docname),
                               failure_redirect_url |->
                                   payment_confirmation_url(kwargs.reference_docname),
                               fees |-> fees(payment_requests[
                                            kwargs.reference_docname].grand_total)])
            /\ call' = [call EXCEPT ![c] =
                          [@ EXCEPT
                             !.pc = "create_request_log",
                             !.op = "get_payment_url",
                             !.token = kwargs.reference_docname,
                             !.currency = kwargs.currency,
                             !.api = {"Invoice.create"},
                             !.invoice =
                                 [id |-> Len(invoices) + 1,
                                  external_id |-> kwargs.reference_docname,
                                  status |-> "PENDING",
                                  invoice_url |-> InvoiceUrl(Len(invoices) + 1)]]]

\* NewIntegrationRequest with the request logged as already settled.
NewIntegrationRequest_completed(c) ==
    [ status |-> Completed,
      output |-> call[c].invoice,
      reference_doctype |-> "Payment Request",
      reference_docname |-> call[c].token ]

\* The Integration Request create_request_log builds (lines 52-57): named
\* after response["external_id"], output = response, the reference taken
\* from kwargs, and the initial status.
NewIntegrationRequest(c) ==
    [ status |-> Queued,
      output |-> call[c].invoice,
      reference_doctype |-> "Payment Request",
      reference_docname |-> call[c].token ]

\* Lines 50-59.  create_request_log inserts the document under the given
\* name; inserting under a name that exists raises DuplicateEntryError and
\* leaves the table as it was.
create_request_log(c) ==
    /\ call[c].pc = "create_request_log"
    /\ LET name == call[c].invoice.external_id IN
       IF integration_requests[name] # NoDoc
       THEN /\ call' = [call EXCEPT ![c] =
                          [@ EXCEPT !.pc = "done",
                                    !.raised = "DuplicateEntryError"]]
            /\ UNCHANGED integration_requests
       ELSE /\ integration_requests' =
                  [integration_requests EXCEPT ![name] = NewIntegrationRequest(c)]
            /\ call' = [call EXCEPT ![c] =
                          [@ EXCEPT !.pc = "done",
                                    !.returned = call[c].invoice.invoice_url]]
    /\ UNCHANGED <<payment_requests, invoices, notifications>>

\* ----------------------------------------------------------- setup_redirect

\* urllib.parse.quote_plus on the values the model passes through it.
quote_plus(v) ==
    CASE v = "thanks?id=7" -> "thanks%3Fid%3D7"
      [] v = "hi there" -> "hi+there"
      [] OTHER -> v

\* urllib.parse.urlencode of a one-entry dict.
urlencode(key, value) == <<key, "=", quote_plus(value)>>

\* Document.get: the value of a field, None when the document has none.
Get(data, key) == IF key \in DOMAIN data THEN data[key] ELSE None

\* Lines 218-233: the location put into frappe.local.response.
setup_redirect(data, redirect_url, custom_redirect_to) ==
    LET redirect_message == Get(data, "redirect_message")
        redirect_to == IF custom_redirect_to # None
                       THEN custom_redirect_to
                       ELSE Get(data, "redirect_to")
        with_to == IF redirect_to # None
                   THEN redirect_url \o <<"&">> \o urlencode("redirect_to", redirect_to)
                   ELSE redirect_url
        with_message == IF redirect_message # None
                        THEN with_to \o <<"&">>
                                 \o urlencode("redirect_message", redirect_message)
                        ELSE with_to
    IN get_url(with_message)

\* Lines 205-208.
SuccessUrl(data) ==
    <<"payment-success", "?doctype=", Get(data, "reference_doctype"),
      "&docname=", Get(data, "reference_docname")>>

\* Line 210.
FailedUrl == <<"payment-failed">>

\* ---------------------------------------------------------- confirm_payment

\* Lines 183-184 and 188-189: load the Integration Request named by the
\* token; a token that names none ends in frappe.throw.
confirm_get_doc(c, token) ==
    /\ CanStart(c)
    /\ LET started == [call[c] EXCEPT !.op = "confirm_payment", !.token = token]
       IN
       IF integration_requests[token] = NoDoc
       THEN call' = [call EXCEPT ![c] =
                       [started EXCEPT !.pc = "done",
                                       !.raised = "Failed to fetch Xendit Invoice"]]
       ELSE call' = [call EXCEPT ![c] =
                       [started EXCEPT !.pc = "Invoice.get",
                                       !.integration_request =
                                           integration_requests[token]]]
    /\ UNCHANGED <<payment_requests, integration_requests, invoices, notifications>>

\* confirm_invoice_get that marks the token Failed when the provider fails.
confirm_invoice_get_marks_failed(c, provider_ok) ==
    /\ call[c].pc = "Invoice.get"
    /\ LET invoice_id == call[c].integration_request.output.id IN
       IF ~provider_ok
       THEN /\ call' = [call EXCEPT ![c] =
                          [@ EXCEPT !.pc = "done",
                                    !.api = {"Invoice.get"},
                                    !.raised = "Failed to fetch Xendit Invoice"]]
            /\ integration_requests' =
                  [integration_requests EXCEPT ![call[c].token].status = "Failed"]
       ELSE /\ call' = [call EXCEPT ![c] =
                          [@ EXCEPT !.pc = "check_status",
                                    !.api = {"Invoice.get"},
                                    !.invoice = InvoiceOf(invoice_id)]]
            /\ UNCHANGED integration_requests
    /\ UNCHANGED <<payment_requests, invoices, notifications>>

\* Lines 184-189: ask the provider for the invoice whose id is stored in the
\* document's output; a failing provider ends in frappe.throw.
confirm_invoice_get(c, provider_ok) ==
    /\ call[c].pc = "Invoice.get"
    /\ LET invoice_id == call[c].integration_request.output.id IN
       IF ~provider_ok
       THEN call' = [call EXCEPT ![c] =
                       [@ EXCEPT !.pc = "done",
                                 !.api = {"Invoice.get"},
                                 !.raised = "Failed to fetch Xendit Invoice"]]
       ELSE call' = [call EXCEPT ![c] =
                       [@ EXCEPT !.pc = "check_status",
                                 !.api = {"Invoice.get"},
                                 !.invoice = InvoiceOf(invoice_id)]]
    /\ UNCHANGED <<payment_requests, integration_requests, invoices, notifications>>

\* IsPaid that takes every status but EXPIRED for paid.
IsPaid_unless_expired(invoice) == invoice.status # "EXPIRED"

\* Line 192.
IsPaid(invoice) == invoice.status = "PAID"

\* update_integration_request_status saving the status on every Integration
\* Request there is.
update_integration_request_status_of_all(token, status) ==
    [n \in Names |-> IF integration_requests[n] = NoDoc
                     THEN NoDoc
                     ELSE [integration_requests[n] EXCEPT !.status = status]]

\* Lines 167-171: load the document again and save it with the status.
update_integration_request_status(token, status) ==
    [integration_requests EXCEPT ![token].status = status]

\* confirm_check_status that marks the token Failed when the invoice is not
\* PAID.
confirm_check_status_marks_failed(c) ==
    /\ call[c].pc = "check_status"
    /\ IF IsPaid(call[c].invoice)
       THEN /\ integration_requests' =
                  update_integration_request_status(call[c].token, Completed)
            /\ call' = [call EXCEPT ![c].pc = "on_payment_authorized"]
       ELSE /\ call' = [call EXCEPT ![c] = [@ EXCEPT !.pc = "done",
                                                     !.logged = TRUE]]
            /\ integration_requests' =
                  update_integration_request_status(call[c].token, "Failed")
    /\ UNCHANGED <<payment_requests, invoices, notifications>>

\* confirm_check_status going on to the hook without marking the
\* Integration Request first.
confirm_check_status_without_marking(c) ==
    /\ call[c].pc = "check_status"
    /\ IF IsPaid(call[c].invoice)
       THEN call' = [call EXCEPT ![c].pc = "on_payment_authorized"]
       ELSE call' = [call EXCEPT ![c] = [@ EXCEPT !.pc = "done",
                                                  !.logged = TRUE]]
    /\ UNCHANGED <<payment_requests, integration_requests, invoices, notifications>>

\* Lines 191-197 and 209-215.  PAID: the status is written.  Otherwise
\* redirect_url is "payment-failed" and line 212 reads custom_redirect_to,
\* which this branch never assigned: the UnboundLocalError is caught at
\* line 214 and logged, and no response is set.
confirm_check_status(c) ==
    /\ call[c].pc = "check_status"
    /\ IF IsPaid(call[c].invoice)
       THEN /\ integration_requests' =
                  update_integration_request_status(call[c].token, Completed)
            /\ call' = [call EXCEPT ![c].pc = "on_payment_authorized"]
       ELSE /\ call' = [call EXCEPT ![c] = [@ EXCEPT !.pc = "done",
                                                     !.logged = TRUE]]
            /\ UNCHANGED integration_requests
    /\ UNCHANGED <<payment_requests, invoices, notifications>>

\* Lines 199-202: load the reference document and run its
\* on_payment_authorized hook.  An exception of either is caught at line
\* 214 and logged, and no response is set.
confirm_on_payment_authorized(c, outcome) ==
    /\ call[c].pc = "on_payment_authorized"
    /\ LET docname == Get(call[c].integration_request, "reference_docname") IN
       CASE outcome = "DoesNotExist" ->
              /\ call' = [call EXCEPT ![c] = [@ EXCEPT !.pc = "done",
                                                       !.logged = TRUE]]
              /\ UNCHANGED notifications
         [] outcome = "Raises" ->
              /\ call' = [call EXCEPT ![c] = [@ EXCEPT !.pc = "done",
                                                       !.notified = TRUE,
                                                       !.logged = TRUE]]
              /\ notifications' = [notifications EXCEPT ![docname] = @ + 1]
         [] OTHER ->
              /\ call' = [call EXCEPT ![c] = [@ EXCEPT !.pc = "commit",
                                                       !.notified = TRUE,
                                                       !.custom_redirect_to = outcome]]
              /\ notifications' = [notifications EXCEPT ![docname] = @ + 1]
    /\ UNCHANGED <<payment_requests, integration_requests, invoices>>

\* Line 203: frappe.db.commit().
confirm_commit(c) ==
    /\ call[c].pc = "commit"
    /\ call' = [call EXCEPT ![c].pc = "setup_redirect"]
    /\ UNCHANGED <<payment_requests, integration_requests, invoices, notifications>>

\* Lines 205-212.
confirm_setup_redirect(c) ==
    /\ call[c].pc = "setup_redirect"
    /\ call' = [call EXCEPT ![c] =
                  [@ EXCEPT !.pc = "done",
                            !.response =
                                setup_redirect(call[c].integration_request,
                                               SuccessUrl(call[c].integration_request),
                                               call[c].custom_redirect_to)]]
    /\ UNCHANGED <<payment_requests, integration_requests, invoices, notifications>>

\* ------------------------------------------------------------ specification

\* The keyword arguments of get_payment_url: complete, without payer_email,
\* or without amount.
Kwargs ==
    [reference_docname : Names, currency : Currencies,
     payer_email : {"payer@example.com"}, amount : {100000}]
    \cup [reference_docname : Names, currency : Currencies, amount : {100000}]
    \cup [reference_docname : Names, currency : Currencies,
          payer_email : {"payer@example.com"}]

\* Which of the Sales Order of the Payment Request, the Items of the order
\* and its Customer can be loaded.
Sites == [sales_order : BOOLEAN, item : BOOLEAN, customer : BOOLEAN]

\* What is wrong with the input of a checkout.
Faults(input) ==
    {k \in {"sales_order", "item", "customer"} : ~input.site[k]}
    \cup ({"payer_email", "amount"} \ DOMAIN input.kwargs)
    \cup (IF input.ascii THEN {} ELSE {"ascii"})
    \cup (IF input.provider_ok THEN {} ELSE {"provider"})
    \cup (IF input.kwargs.reference_docname \in PaymentRequests
          THEN {} ELSE {"reference_docname"})

\* The inputs of a checkout: at most one thing is wrong with them.  The
\* first failure ends the call, so an input with more wrong does what the
\* input with only the first of them does.
CheckoutInputs ==
    {input \in [kwargs : Kwargs, ascii : BOOLEAN, site : Sites,
                provider_ok : BOOLEAN] : Cardinality(Faults(input)) <= 1}

Next ==
    \/ \E c \in Calls, currency \in Currencies :
          validate_transaction_currency(c, currency)
    \/ \E c \in Calls, input \in CheckoutInputs :
          execute_set_express_checkout(c, input.kwargs, input.ascii,
                                       input.site, input.provider_ok)
    \/ \E c \in Calls : create_request_log(c)
    \/ \E c \in Calls, token \in Names : confirm_get_doc(c, token)
    \/ \E c \in Calls, provider_ok \in BOOLEAN : confirm_invoice_get(c, provider_ok)
    \/ \E c \in Calls : confirm_check_status(c)
    \/ \E c \in Calls, outcome \in HookOutcomes :
          confirm_on_payment_authorized(c, outcome)
    \/ \E c \in Calls : confirm_commit(c)
    \/ \E c \in Calls : confirm_setup_redirect(c)
    \/ \E i \in 1..NumCalls, s \in InvoiceStatuses : ProviderSetsStatus(i, s)

\* Requests served by concurrent workers.
Spec == Init /\ [][Next]_vars

\* At most one request is being served.
Sequential == \A c, d \in Calls : Running(c) /\ Running(d) => c = d

\* Requests served one after the other: a request starts only when no
\* other is being served.
NextSeq ==
    \/ \E c \in Calls, currency \in Currencies :
          validate_transaction_currency(c, currency) /\ Sequential'
    \/ \E c \in Calls, input \in CheckoutInputs :
          execute_set_express_checkout(c, input.kwargs, input.ascii,
                                       input.site, input.provider_ok) /\ Sequential'
    \/ \E c \in Calls : create_request_log(c)
    \/ \E c \in Calls, token \in Names : confirm_get_doc(c, token) /\ Sequential'
    \/ \E c \in Calls, provider_ok \in BOOLEAN : confirm_invoice_get(c, provider_ok)
    \/ \E c \in Calls : confirm_check_status(c)
    \/ \E c \in Calls, outcome \in HookOutcomes :
          confirm_on_payment_authorized(c, outcome)
    \/ \E c \in Calls : confirm_commit(c)
    \/ \E c \in Calls : confirm_setup_redirect(c)
    \/ \E i \in 1..NumCalls, s \in InvoiceStatuses : ProviderSetsStatus(i, s)

SpecSeq == Init /\ [][NextSeq]_vars

\* Grand totals of Payment Request PR-1 for the fee: 0, 12500, ...
MaxAmountSteps == 240

Amounts == {12500 * k : k \in 0..MaxAmountSteps}

\* One checkout, for a PR-1 of any of the grand totals.
InitFee ==
    /\ NothingRequested
    /\ payment_requests \in
          {[n \in PaymentRequests |->
               [grand_total |-> IF n = "PR-1" THEN a ELSE 250000]] : a \in Amounts}

NextFee ==
    \/ \E input \in CheckoutInputs :
          execute_set_express_checkout(1, input.kwargs, input.ascii,
                                       input.site, input.provider_ok)
    \/ create_request_log(1)

SpecFee == InitFee /\ [][NextFee]_vars

\* ------------------------------------------------------------------ claims

\* A finished confirm_payment whose Invoice.get answered.
ConfirmAnswered(c) ==
    /\ Finished(c)
    /\ call[c].op = "confirm_payment"
    /\ call[c].invoice # NoInvoice

\* A finished confirm_payment whose Invoice.get answered PAID.
ConfirmPaid(c) == ConfirmAnswered(c) /\ call[c].invoice.status = "PAID"

\* The response is a redirect to payment-success for the token's reference.
IsSuccessRedirect(response, token) ==
    /\ Len(response) >= 6
    /\ SubSeq(response, 1, 6) =
          <<"https://site/", "payment-success", "?doctype=", "Payment Request",
            "&docname=", token>>

\* The response is a redirect to payment-failed.
IsFailureRedirect(response) == response = <<"https://site/", "payment-failed">>

\* C1: of two Confirm calls made one after the other on a token whose
\* invoice is PAID at both, neither of which logged an error, the first runs
\* the payment-authorized notification and the second, which finds the
\* token Completed, does not.
C1_SecondConfirmDoesNotNotify ==
    \A c, d \in Calls :
        ( /\ c < d
          /\ ConfirmPaid(c) /\ ConfirmPaid(d)
          /\ call[c].token = call[d].token
          /\ ~call[c].logged /\ ~call[d].logged
          /\ call[d].integration_request.status = Completed )
        => call[c].notified /\ ~call[d].notified

\* C2: however Confirm calls on one token interleave, the notification of a
\* reference document runs at most once.
C2_NotifiedAtMostOnce == \A n \in Names : notifications[n] <= 1

\* C3: a token that has status Completed keeps it, whatever step is taken.
C3_CompletedIsStable ==
    [][\A n \in Names :
          integration_requests[n].status = Completed
              => integration_requests'[n].status = Completed]_vars

\* C3 witness: a Confirm found the token Completed, got a status other than
\* PAID from the provider, has finished, and the token is still Completed.
C3_Witness ==
    \E c \in Calls :
        /\ ConfirmAnswered(c)
        /\ call[c].invoice.status # "PAID"
        /\ call[c].integration_request.status = Completed
        /\ integration_requests[call[c].token].status = Completed

\* C4: a token becomes Completed only by the step of a Confirm call on that
\* token whose own Invoice.get, made for the invoice id the token stores,
\* answered PAID.
C4_CompletedOnlyByPaidInvoice ==
    [][\A n \in Names :
          ( integration_requests[n].status # Completed
            /\ integration_requests'[n].status = Completed )
          => \E c \in Calls :
                /\ call[c].op = "confirm_payment"
                /\ call[c].pc = "check_status"
                /\ call'[c].pc # "check_status"
                /\ call[c].token = n
                /\ "Invoice.get" \in call[c].api
                /\ call[c].invoice.id = integration_requests[n].output.id
                /\ call[c].invoice.status = "PAID"]_vars

\* C4 witness: a token is Completed.
C4_Witness ==
    \E n \in Names : integration_requests[n].status = Completed

\* C5: every Confirm call whose invoice is PAID ends with the success
\* redirect, whether it found the token Pending or Completed.
C5_PaidAlwaysSuccessRedirect ==
    \A c \in Calls :
        ConfirmPaid(c) => IsSuccessRedirect(call[c].response, call[c].token)

\* C6: a Confirm call whose invoice has a status other than PAID ends with
\* the redirect to payment-failed and does not run the notification.
C6_UnpaidFailureRedirect ==
    \A c \in Calls :
        (ConfirmAnswered(c) /\ call[c].invoice.status # "PAID")
            => IsFailureRedirect(call[c].response) /\ ~call[c].notified

\* C7: no Confirm call raises to its caller; every one ends with a redirect
\* response set.
C7_ConfirmAlwaysRedirects ==
    \A c \in Calls :
        (Finished(c) /\ call[c].op = "confirm_payment")
            => call[c].raised = None /\ call[c].response # NoResponse

\* The step taken is one of Confirm call c, up to its Invoice.get, and the
\* call has not got an answer from Invoice.get.
StepOfFailingInvoiceGet(c) ==
    /\ call'[c] # call[c]
    /\ call'[c].op = "confirm_payment"
    /\ call[c].pc \in {"idle", "Invoice.get"}
    /\ call'[c].invoice = NoInvoice

\* C8: the steps of a Confirm call whose Invoice.get fails leave every
\* Integration Request and the notifications as they were.
C8_FailedInvoiceGetChangesNothing ==
    [][\A c \in Calls :
          StepOfFailingInvoiceGet(c)
              => /\ integration_requests' = integration_requests
                 /\ notifications' = notifications
                 /\ ~call'[c].notified]_vars

\* C8 witness: a Confirm call on an existing token has finished with a
\* failed Invoice.get.
C8_Witness ==
    \E c \in Calls :
        /\ Finished(c)
        /\ call[c].op = "confirm_payment"
        /\ call[c].api = {"Invoice.get"}
        /\ call[c].invoice = NoInvoice
        /\ call[c].raised # None
        /\ integration_requests[call[c].token] # NoDoc

\* C9: a RequestCheckout with a currency outside supported_currencies fails,
\* having made no provider call and persisted no token.
C9_UnsupportedCurrencyRejected ==
    \A c \in Calls :
        ( /\ call[c].op = "get_payment_url"
          /\ call[c].currency \in Currencies \ supported_currencies )
        => /\ call[c].api = {}
           /\ call[c].returned = NoUrl
           /\ Finished(c) => call[c].raised # None

\* The step taken is one of RequestCheckout call c.
StepOfGetPaymentUrl(c) ==
    /\ call'[c] # call[c]
    /\ call'[c].op = "get_payment_url"

\* C10: the steps of a RequestCheckout that returns change the Integration
\* Requests in exactly one place: the name response["external_id"], free
\* before, now holds a document with the initial status whose output is the
\* provider's response; the call returns that response's invoice_url.  Its
\* other steps change no Integration Request.
C10_CheckoutPersistsOneToken ==
    [][\A c \in Calls :
          StepOfGetPaymentUrl(c) =>
              IF call'[c].returned # NoUrl
              THEN LET n == call[c].invoice.external_id
                       id == call[c].invoice.id IN
                   /\ call[c].invoice = InvoiceOf(id)
                   /\ invoices[id].external_id = n
                   /\ integration_requests[n] = NoDoc
                   /\ integration_requests'[n].status = Queued
                   /\ integration_requests'[n].output = call[c].invoice
                   /\ integration_requests'[n].output.id = id
                   /\ call'[c].returned = InvoiceUrl(id)
                   /\ \A m \in Names \ {n} :
                         integration_requests'[m] = integration_requests[m]
              ELSE integration_requests' = integration_requests]_vars

\* C10 witness: a RequestCheckout has returned the invoice URL and its
\* token is stored.
C10_Witness ==
    \E c \in Calls :
        /\ Finished(c)
        /\ call[c].op = "get_payment_url"
        /\ call[c].returned # NoUrl
        /\ integration_requests[call[c].token] # NoDoc

\* The step taken is one of RequestCheckout call c in which Invoice.create
\* was called and created no invoice.
StepOfFailingInvoiceCreate(c) ==
    /\ call[c].pc = "idle"
    /\ call'[c].op = "get_payment_url"
    /\ "Invoice.create" \in call'[c].api
    /\ Len(invoices') = Len(invoices)

\* C11: a RequestCheckout whose Invoice.create fails ends at once with the
\* error raised to its caller and no URL returned, and its step leaves
\* every Integration Request as it was.
C11_FailedCreatePersistsNothing ==
    [][\A c \in Calls :
          StepOfFailingInvoiceCreate(c)
              => /\ call'[c].pc = "done"
                 /\ call'[c].raised # None
                 /\ call'[c].returned = NoUrl
                 /\ integration_requests' = integration_requests]_vars

\* C11 witness: a RequestCheckout has finished after a failed
\* Invoice.create, while a token of an earlier request is stored.
C11_Witness ==
    \E c \in Calls :
        /\ Finished(c)
        /\ call[c].op = "get_payment_url"
        /\ call[c].api = {"Invoice.create"}
        /\ call[c].invoice = NoInvoice
        /\ call[c].raised = "Failed to create Xendit Invoice"
        /\ \E n \in Names : integration_requests[n] # NoDoc

\* C12: every invoice carries a single fee of type GATEWAY whose value is
\* 2000 + floor((0.029 * A) / 1000) * 1000, A the amount of the Payment
\* Request it was created for.
C12_FeeIsFlatPlusPercentage ==
    \A i \in 1..Len(invoices) :
        LET A == payment_requests[invoices[i].external_id].grand_total
        IN invoices[i].fees =
              <<[type |-> "GATEWAY",
                 value |-> 2000 + ((29 * A) \div 1000000) * 1000]>>

\* A finished RequestCheckout that returned the invoice URL.
CheckoutReturned(c) ==
    /\ Finished(c)
    /\ call[c].op = "get_payment_url"
    /\ call[c].returned # NoUrl

\* C13: for every RequestCheckout that returned, the external_id of its
\* invoice, the token parameter of the invoice's success and failure
\* redirect URLs and the name of the Integration Request it stored are the
\* same, so the token of the redirect names the Integration Request that
\* holds this invoice.
C13_OneTokenEverywhere ==
    \A c \in Calls :
        CheckoutReturned(c) =>
            LET id == call[c].invoice.id
                t == invoices[id].external_id
                url == <<"https://site/",
                         "/api/method/payments.payment_gateways.doctype.xendit_settings.xendit_settings",
                         ".confirm_payment?token=", t>>
            IN /\ invoices[id].success_redirect_url = url
               /\ invoices[id].failure_redirect_url = url
               /\ integration_requests[t] # NoDoc
               /\ integration_requests[t].output.id = id
               /\ integration_requests[t].output.external_id = t

\* C13 witness: a Confirm called with the token of a returned
\* RequestCheckout's redirect URL loaded the Integration Request of that
\* request.
C13_Witness ==
    \E c, d \in Calls :
        /\ CheckoutReturned(d)
        /\ call[c].op = "confirm_payment"
        /\ Len(invoices[call[d].invoice.id].success_redirect_url) = 4
        /\ call[c].token = invoices[call[d].invoice.id].success_redirect_url[4]
        /\ call[c].integration_request # NoDoc
        /\ call[c].integration_request.output.id = call[d].invoice.id

\* C14: the step of a RequestCheckout that stores the invoice the provider
\* created leaves the Integration Request named after the reference holding
\* that invoice as its output, whether or not the name was taken before,
\* and the call does not fail.
C14_LaterCheckoutOverwrites ==
    [][\A c \in Calls :
          (call[c].pc = "create_request_log" /\ call'[c].pc = "done")
              => /\ call'[c].raised = None
                 /\ call'[c].returned = call[c].invoice.invoice_url
                 /\ integration_requests'[call[c].token] # NoDoc
                 /\ integration_requests'[call[c].token].output = call[c].invoice
      ]_vars

\* A step of the confirm_payment call c.
StepOfConfirm(c) ==
    /\ call'[c] # call[c]
    /\ call'[c].op = "confirm_payment"

\* The Integration Request of call c's token is marked Completed.
TokenCompleted(c) == integration_requests[call[c].token].status = Completed

\* C15: in a Confirm whose invoice is PAID the Integration Request is
\* marked Completed before anything else happens; on_payment_authorized runs
\* only after that, on a request that is Completed and before the commit;
\* the commit follows the hook; and the redirect is set only after the
\* commit.
C15_MarkNotifyCommitRedirect ==
    [][\A c \in Calls :
          (StepOfConfirm(c) /\ IsPaid(call'[c].invoice)) =>
              /\ call[c].pc = "check_status"
                    => /\ ~call[c].notified
                       /\ call[c].response = NoResponse
                       /\ integration_requests'[call[c].token].status = Completed
                       /\ notifications' = notifications
                       /\ call'[c].pc = "on_payment_authorized"
              /\ notifications' # notifications
                    => /\ call[c].pc = "on_payment_authorized"
                       /\ TokenCompleted(c)
                       /\ call[c].response = NoResponse
                       /\ call'[c].pc \in {"commit", "done"}
              /\ call[c].pc = "commit"
                    => /\ call[c].notified
                       /\ TokenCompleted(c)
                       /\ call[c].response = NoResponse
                       /\ call'[c].response = NoResponse
                       /\ call'[c].pc = "setup_redirect"
              /\ call'[c].response # NoResponse
                    => /\ call[c].pc = "setup_redirect"
                       /\ call[c].notified
                       /\ TokenCompleted(c)
      ]_vars

\* C15 witness: a finished Confirm that read its Integration Request with
\* the initial status, was answered PAID, ran the hook and set the redirect.
C15_Witness ==
    \E c \in Calls :
        /\ ConfirmPaid(c)
        /\ call[c].integration_request.status = Queued
        /\ call[c].notified
        /\ call[c].response # NoResponse
        /\ TokenCompleted(c)

\* C16: the step of a Confirm that finds its invoice not PAID marks the
\* Integration Request Failed when it still has the initial status, and
\* leaves every Integration Request as it was when it is already Failed.
C16_UnpaidMarksFailed ==
    [][\A c \in Calls :
          (StepOfConfirm(c) /\ call[c].pc = "check_status"
                            /\ ~IsPaid(call[c].invoice)) =>
              LET status == integration_requests[call[c].token].status IN
              /\ status = Queued
                    => integration_requests'[call[c].token].status = "Failed"
              /\ status = "Failed"
                    => integration_requests' = integration_requests
      ]_vars

\* A confirm_payment call that has set its redirect.
ConfirmRedirected(c) ==
    /\ call[c].op = "confirm_payment"
    /\ call[c].response # NoResponse

\* C17: when on_payment_authorized returned an override, the redirect of
\* the Confirm goes to the override in place of the default payment-success
\* target.
C17_OverrideReplacesDefaultTarget ==
    \A c \in Calls :
        (ConfirmRedirected(c) /\ call[c].custom_redirect_to # None)
            => /\ Len(call[c].response) >= 2
               /\ call[c].response[2] = call[c].custom_redirect_to
               /\ ~IsSuccessRedirect(call[c].response, call[c].token)

\* C18: a step of a Confirm changes at most the status of the Integration
\* Request named by its token: its output (the provider's response with the
\* invoice id) and its reference stay as they are, and every other
\* Integration Request is unchanged; and no step of any operation removes an
\* Integration Request.
C18_ConfirmChangesOnlyStatus ==
    [][/\ \A c \in Calls :
             StepOfConfirm(c) =>
                 \A n \in Names :
                     IF n = call'[c].token /\ integration_requests[n] # NoDoc
                     THEN /\ integration_requests'[n] # NoDoc
                          /\ integration_requests'[n].output =
                                 integration_requests[n].output
                          /\ integration_requests'[n].reference_doctype =
                                 integration_requests[n].reference_doctype
                          /\ integration_requests'[n].reference_docname =
                                 integration_requests[n].reference_docname
                     ELSE integration_requests'[n] = integration_requests[n]
       /\ \A n \in Names :
             integration_requests[n] # NoDoc => integration_requests'[n] # NoDoc
      ]_vars

\* C18 witness: a Confirm has changed the status of its Integration Request
\* while another Integration Request is stored, and the output is still the
\* one the Confirm read.
C18_Witness ==
    \E c \in Calls :
        /\ ConfirmPaid(c)
        /\ call[c].integration_request.status = Queued
        /\ integration_requests[call[c].token].status = Completed
        /\ integration_requests[call[c].token].output =
               call[c].integration_request.output
        /\ \E n \in Names \ {call[c].token} :
               /\ integration_requests[n] # NoDoc
               /\ integration_requests[n].status = Queued

\* Call d ran on_payment_authorized for the token to its end.
NotifiedSuccessfully(d, token) ==
    /\ call[d].op = "confirm_payment"
    /\ call[d].token = token
    /\ call[d].notified
    /\ ~call[d].logged

\* C19: whenever a Confirm has finished and the Integration Request of its
\* token is Completed, some Confirm of that token ran on_payment_authorized
\* to its end.
C19_CompletedMeansNotified ==
    \A c \in Calls :
        (Finished(c) /\ call[c].op = "confirm_payment"
                     /\ call[c].integration_request # NoDoc
                     /\ TokenCompleted(c))
            => \E d \in Calls : NotifiedSuccessfully(d, call[c].token)

====
